---- MODULE Spec2Model ----
(***************************************************************************)
(* Nice tick values of a numeric axis (src/util/scale/getNiceTickValues.ts *)
(* and src/util/scale/util/arithmetic.ts).                                 *)
(*                                                                         *)
(* Numbers.  A JavaScript number is modelled as an exact rational          *)
(* <<n, d>> in lowest terms with d > 0, or as one of the two infinities    *)
(* <<1, 0>> and <<-1, 0>>.  Arithmetic is exact: the rounding of IEEE-754  *)
(* doubles is not part of the model.                                       *)
(***************************************************************************)
EXTENDS Integers, Sequences, FiniteSets, TLC

----------------------------------------------------------------------------
(* Exact arithmetic on numbers.                                            *)

Abs(n) == IF n < 0 THEN -n ELSE n

RECURSIVE Gcd(_, _)
Gcd(a, b) == IF b = 0 THEN a ELSE Gcd(b, a % b)

\* The number n/d (d # 0) in lowest terms with a positive denominator.
Norm(n, d) ==
    LET g == Gcd(Abs(n), Abs(d))
        s == IF d < 0 THEN -1 ELSE 1
    IN  <<s * (n \div g), s * (d \div g)>>

Num(n) == <<n, 1>>
Zero == <<0, 1>>
PosInf == <<1, 0>>
NegInf == <<-1, 0>>
NaN == <<0, 0>>

\* Number.isFinite
IsFinite(x) == x[2] # 0

Neg(x) == <<-x[1], x[2]>>

\* The sign of x: -1, 0 or 1 (also of an infinity).
Sign(x) == IF x[1] < 0 THEN -1 ELSE IF x[1] > 0 THEN 1 ELSE 0

\* x + y.  Infinity + (-Infinity) is NaN.
Add(x, y) ==
    IF IsFinite(x) /\ IsFinite(y)
    THEN LET g == Gcd(x[2], y[2])
         IN  Norm(x[1] * (y[2] \div g) + y[1] * (x[2] \div g), (x[2] \div g) * y[2])
    ELSE IF IsFinite(x) THEN y
    ELSE IF IsFinite(y) \/ x = y THEN x
    ELSE NaN

Sub(x, y) == Add(x, Neg(y))

\* x * y, both finite.
Mul(x, y) ==
    LET g1 == Gcd(Abs(x[1]), y[2])
        g2 == Gcd(Abs(y[1]), x[2])
    IN  IF x[1] = 0 \/ y[1] = 0 THEN Zero
        ELSE <<(x[1] \div g1) * (y[1] \div g2), (x[2] \div g2) * (y[2] \div g1)>>

\* x / y, both finite: a nonzero number divided by zero is an infinity, 0/0 is NaN.
Div(x, y) ==
    IF y[1] = 0 THEN <<Sign(x), 0>>
    ELSE Mul(x, Norm(y[2], y[1]))

\* x < y (false when either is NaN).
Lt(x, y) ==
    IF x = NaN \/ y = NaN THEN FALSE
    ELSE IF IsFinite(x) /\ IsFinite(y)
    THEN LET g == Gcd(x[2], y[2])
         IN  x[1] * (y[2] \div g) < y[1] * (x[2] \div g)
    ELSE IF IsFinite(x) THEN y = PosInf
    ELSE IF IsFinite(y) THEN x = NegInf
    ELSE x = NegInf /\ y = PosInf

Le(x, y) == x # NaN /\ y # NaN /\ (x = y \/ Lt(x, y))
Gt(x, y) == Lt(y, x)
Ge(x, y) == Le(y, x)

\* Math.floor and Math.ceil of a finite number, as integers.
Floor(x) == x[1] \div x[2]
Ceil(x) == -((-x[1]) \div x[2])

\* Math.round: the nearest integer, a tie going up.
Round(x) == Floor(Add(x, <<1, 2>>))

\* Math.abs
AbsNum(x) == <<Abs(x[1]), x[2]>>

\* Number.isInteger
IsInteger(x) == x[2] = 1

\* The JavaScript remainder x % y of finite numbers, y # 0: its sign is x's.
Rem(x, y) ==
    LET q == Div(x, y)
        t == IF q[1] < 0 THEN Ceil(q) ELSE Floor(q)
    IN  Sub(x, Mul(Num(t), y))

\* 10 ** k for an integer k.
RECURSIVE IntPow10(_)
IntPow10(k) == IF k = 0 THEN 1 ELSE 10 * IntPow10(k - 1)

Pow10(k) == IF k >= 0 THEN <<IntPow10(k), 1>> ELSE <<1, IntPow10(-k)>>

\* Math.floor(Math.log10(x)) for a finite x > 0.
RECURSIVE FloorLog10(_)
FloorLog10(x) ==
    IF Ge(x, Num(10)) THEN FloorLog10(Div(x, Num(10))) + 1
    ELSE IF Lt(x, Num(1)) THEN FloorLog10(Mul(x, Num(10))) - 1
    ELSE 0

\* The sequence x reversed (Array.prototype.reverse).
Reverse(s) == [k \in 1..Len(s) |-> s[Len(s) + 1 - k]]

----------------------------------------------------------------------------
(* src/util/scale/util/arithmetic.ts                                       *)

getDigitCount(value) ==
    IF value = Zero THEN 1 ELSE FloorLog10(AbsNum(value)) + 1

----------------------------------------------------------------------------
(* src/util/scale/getNiceTickValues.ts                                     *)

getValidInterval(min, max) ==
    IF Gt(min, max) THEN <<max, min>> ELSE <<min, max>>

getFormatStep(roughStep, allowDecimals, correctionFactor) ==
    IF Le(roughStep, Zero) \/ ~IsFinite(roughStep) THEN Zero
    ELSE LET digitCount == getDigitCount(roughStep)
             pow10 == Pow10(digitCount - 1)
             stepRatio == Div(roughStep, pow10)
             stepRatioScale == IF digitCount # 1 THEN <<1, 20>> ELSE <<1, 10>>
             stepRatioAmend == Ceil(Div(stepRatio, stepRatioScale)) + correctionFactor
             niceStep == Mul(Mul(Num(stepRatioAmend), stepRatioScale), pow10)
         IN  IF ~allowDecimals THEN Num(Ceil(niceStep)) ELSE niceStep


\* calculateStepResult without the additional ticks.
calculateStepResultWithoutPadding(max, tickCount, step, middle, belowCount, upCount) ==
    IF belowCount + upCount + 1 > tickCount
    THEN [recurse |-> TRUE, step |-> step, tickMin |-> Zero, tickMax |-> Zero]
    ELSE [recurse |-> FALSE, step |-> step,
          tickMin |-> Sub(middle, Mul(Num(belowCount), step)),
          tickMax |-> Add(middle, Mul(Num(upCount), step))]

\* The result of one execution of the body of calculateStep, from its step, its
\* middle, belowCount and upCount: either what it returns, or the request to call
\* itself with correctionFactor + 1.
calculateStepResult(max, tickCount, step, middle, belowCount, upCount) ==
    LET scaleCount == belowCount + upCount + 1
        pad == IF scaleCount < tickCount THEN tickCount - scaleCount ELSE 0
        belowPadded == IF Gt(max, Zero) THEN belowCount ELSE belowCount + pad
        upPadded == IF Gt(max, Zero) THEN upCount + pad ELSE upCount
    IN  IF scaleCount > tickCount
        THEN [recurse |-> TRUE, step |-> step, tickMin |-> Zero, tickMax |-> Zero]
        ELSE [recurse |-> FALSE, step |-> step,
              tickMin |-> Sub(middle, Mul(Num(belowPadded), step)),
              tickMax |-> Add(middle, Mul(Num(upPadded), step))]

\* calculateStepCounts with upCount rounded down.
calculateStepCountsRoundedDown(min, max, tickCount, step, middle) ==
    calculateStepResult(max, tickCount, step, middle,
                        Ceil(Div(Sub(middle, min), step)),
                        Floor(Div(Sub(max, middle), step)))

\* belowCount and upCount of calculateStep, from its step and its middle.
calculateStepCounts(min, max, tickCount, step, middle) ==
    calculateStepResult(max, tickCount, step, middle,
                        Ceil(Div(Sub(middle, min), step)),
                        Ceil(Div(Sub(max, middle), step)))

\* middle -= ((middle % step) + step) % step
minusModulo(middle, step) == Sub(middle, Rem(Add(Rem(middle, step), step), step))

\* The middle of calculateStep, from its step.
calculateStepMiddle(min, max, tickCount, step) ==
    calculateStepCounts(min, max, tickCount, step,
        IF Le(min, Zero) /\ Ge(max, Zero) THEN Zero
        ELSE minusModulo(Div(Add(min, max), Num(2)), step))

\* One execution of the body of calculateStep.
calculateStepBody(min, max, tickCount, allowDecimals, correctionFactor) ==
    IF ~IsFinite(Div(Sub(max, min), Num(tickCount - 1)))
    THEN [recurse |-> FALSE, step |-> Zero, tickMin |-> Zero, tickMax |-> Zero]
    ELSE calculateStepMiddle(min, max, tickCount,
             getFormatStep(Div(Sub(max, min), Num(tickCount - 1)),
                           allowDecimals, correctionFactor))

\* range(begin, end) of ./util/utils: begin, begin + 1, ..., end - 1.
range(begin, end) ==
    IF end > begin THEN [k \in 1..(end - begin) |-> begin + k - 1] ELSE <<>>

\* getTickOfSingleValue with the value after the middle index.
getTickOfSingleValueOffCentre(value, tickCount, allowDecimals) ==
    IF tickCount <= 1 THEN <<value>>
    ELSE [k \in 1..tickCount |-> Add(Num(Floor(value)), Num(k - 1 - (tickCount \div 2)))]

getTickOfSingleValue(value, tickCount, allowDecimals) ==
    IF tickCount <= 1 THEN <<value>>
    ELSE
    LET small == allowDecimals /\ Lt(AbsNum(value), Num(1)) /\ value # Zero
        step == IF small THEN Pow10(getDigitCount(value) - 1) ELSE Num(1)
        middle == IF small THEN Mul(Num(Floor(Div(value, step))), step)
                  ELSE IF ~allowDecimals \/ IsInteger(value) THEN Num(Floor(value))
                  ELSE IF value = Zero THEN Num((tickCount - 1) \div 2)
                  ELSE value
        middleIndex == (tickCount - 1) \div 2
        ns == range(0, tickCount)
    IN  [k \in DOMAIN ns |-> Add(middle, Mul(Num(ns[k] - middleIndex), step))]


----------------------------------------------------------------------------
(* Bounds of the model.                                                    *)

\* The finite bounds of a domain are the halves k/2 with |k| <= GridMax.
GridMax == 3
\* tickCount ranges over 0..MaxTickCount.
MaxTickCount == 5
\* The depth of recursion the call stack allows: a call of calculateStep at
\* correctionFactor = MaxRecursion that has to call itself again ends in
\* "RangeError: Maximum call stack size exceeded".
MaxRecursion == 70
\* The iteration cap of rangeStep.
RangeStepCap == 100000

Grid == {Norm(k, 2) : k \in -GridMax..GridMax}
Bounds == Grid \cup {NegInf, PosInf}
TickCounts == 0..MaxTickCount

----------------------------------------------------------------------------
(* The calls as a state machine.                                           *)

VARIABLES
    args,              \* the call: the function and its arguments
    pc,                \* "call", "calculateStep", "rangeStep", "done", "RangeError"
    correctionFactor,  \* the argument of the running call of calculateStep
    calc,              \* what calculateStep returned
    loop,              \* rangeStep's end, step, num and i
    result,            \* rangeStep's array
    digest,            \* the length, first and last element of rangeStep's
                       \* array, and whether 0 is an element of it
    materialise,       \* whether result holds the elements, or digest alone
                       \* describes the array
    ret,               \* the array the call returned
    prev               \* <<the call made before this one, with its outcome>>, or <<>>

vars == <<args, pc, correctionFactor, calc, loop, result, digest, materialise, ret, prev>>

NoCalc == [step |-> Zero, tickMin |-> Zero, tickMax |-> Zero]
NoLoop == [end |-> Zero, step |-> Zero, num |-> Zero, i |-> 0]
EmptyDigest == [len |-> 0, zero |-> FALSE, first |-> NaN, last |-> NaN]

\* The digest of an array, and of an array after a push.
DigestOf(s) ==
    [len |-> Len(s), zero |-> \E k \in DOMAIN s : s[k] = Zero,
     first |-> IF s = <<>> THEN NaN ELSE s[1],
     last |-> IF s = <<>> THEN NaN ELSE s[Len(s)]]

Push(d, x) ==
    [len |-> d.len + 1, zero |-> d.zero \/ x = Zero,
     first |-> IF d.len = 0 THEN x ELSE d.first, last |-> x]

Fresh ==
    /\ pc = "call"
    /\ correctionFactor = 0
    /\ calc = NoCalc
    /\ loop = NoLoop
    /\ result = <<>>
    /\ digest = EmptyDigest
    /\ ret = <<>>
    /\ prev = <<>>

Init ==
    /\ args \in [fn : {"getNiceTickValues", "getTickValuesFixedDomain"},
                 min : Bounds, max : Bounds,
                 tickCount : TickCounts, allowDecimals : BOOLEAN]
    /\ materialise = TRUE
    /\ Fresh

cormin == getValidInterval(args.min, args.max)[1]
cormax == getValidInterval(args.min, args.max)[2]
\* Math.max(tickCount, 2)
count == IF args.tickCount > 2 THEN args.tickCount ELSE 2

\* rangeStep(start, end, step) begins: num = start, i = 0, result = [].
EnterRangeStep(start, end, step) ==
    /\ loop' = [end |-> end, step |-> step, num |-> start, i |-> 0]
    /\ result' = <<>>
    /\ digest' = EmptyDigest
    /\ pc' = "rangeStep"

Return(values) ==
    /\ ret' = values
    /\ pc' = "done"

\* inCallerOrder without the reversal.
inCallerOrderNeverReversed(values) == values

\* min > max ? values.reverse() : values
inCallerOrder(values) ==
    IF Gt(args.min, args.max) THEN Reverse(values) ELSE values

\* infiniteTicks with one infinite tick too many.
infiniteTicksOneMore(lo, hi, tickCount) ==
    IF hi = PosInf
    THEN <<lo>> \o [k \in DOMAIN range(0, tickCount) |-> PosInf]
    ELSE [k \in DOMAIN range(0, tickCount) |-> NegInf] \o <<hi>>

\* The ticks of getNiceTickValues for a domain with an infinite bound.
infiniteTicks(lo, hi, tickCount) ==
    IF hi = PosInf
    THEN <<lo>> \o [k \in DOMAIN range(0, tickCount - 1) |-> PosInf]
    ELSE [k \in DOMAIN range(0, tickCount - 1) |-> NegInf] \o <<hi>>

\* getNiceTickValues up to its call of calculateStep.
getNiceTickValues ==
    /\ pc = "call"
    /\ args.fn = "getNiceTickValues"
    /\ IF cormin = NegInf \/ cormax = PosInf
       THEN /\ Return(inCallerOrder(infiniteTicks(cormin, cormax, args.tickCount)))
            /\ UNCHANGED correctionFactor
       ELSE IF cormin = cormax
       THEN /\ Return(getTickOfSingleValue(cormin, args.tickCount, args.allowDecimals))
            /\ UNCHANGED correctionFactor
       ELSE /\ pc' = "calculateStep"
            /\ correctionFactor' = 0
            /\ UNCHANGED ret
    /\ UNCHANGED <<args, calc, loop, result, digest, materialise, prev>>

\* What a call of calculateStep does with the result r of its body: it calls
\* itself with correctionFactor + 1, which the call stack allows MaxRecursion
\* times, or returns r to getNiceTickValues, which calls
\* rangeStep(tickMin, tickMax + 0.1 * step, step).
calculateStepEnd(r) ==
    IF r.recurse
    THEN /\ IF correctionFactor < MaxRecursion
            THEN correctionFactor' = correctionFactor + 1 /\ pc' = "calculateStep"
            ELSE correctionFactor' = correctionFactor /\ pc' = "RangeError"
         /\ UNCHANGED <<calc, loop, result, digest>>
    ELSE /\ calc' = [step |-> r.step, tickMin |-> r.tickMin, tickMax |-> r.tickMax]
         /\ EnterRangeStep(r.tickMin, Add(r.tickMax, Mul(<<1, 10>>, r.step)), r.step)
         /\ UNCHANGED correctionFactor

\* One call of calculateStep(cormin, cormax, count, allowDecimals, correctionFactor).
calculateStep ==
    /\ pc = "calculateStep"
    /\ calculateStepEnd(calculateStepBody(cormin, cormax, count, args.allowDecimals,
                                          correctionFactor))
    /\ UNCHANGED <<args, materialise, ret, prev>>

\* getTickValuesFixedDomain up to its call of rangeStep.
getTickValuesFixedDomain ==
    /\ pc = "call"
    /\ args.fn = "getTickValuesFixedDomain"
    /\ IF cormin = NegInf \/ cormax = PosInf
       THEN /\ Return(<<args.min, args.max>>)
            /\ UNCHANGED <<loop, result, digest>>
       ELSE IF cormin = cormax
       THEN /\ Return(<<cormin>>)
            /\ UNCHANGED <<loop, result, digest>>
       ELSE /\ EnterRangeStep(cormin, cormax,
                  getFormatStep(Div(Sub(cormax, cormin), Num(count - 1)), args.allowDecimals, 0))
            /\ UNCHANGED ret
    /\ UNCHANGED <<args, correctionFactor, calc, materialise, prev>>

\* A direct call of rangeStep(start, end, step).
rangeStepCall ==
    /\ pc = "call"
    /\ args.fn = "rangeStep"
    /\ EnterRangeStep(args.start, args.end, args.step)
    /\ UNCHANGED <<args, correctionFactor, calc, materialise, ret, prev>>

\* rangeStepCondition with the cap off by one.
rangeStepConditionOffByOne == Lt(loop.num, loop.end) /\ loop.i <= RangeStepCap

\* while (num < end && i < 100000)
rangeStepCondition == Lt(loop.num, loop.end) /\ loop.i < RangeStepCap

\* One iteration of rangeStep's loop.
rangeStepIterate ==
    /\ pc = "rangeStep"
    /\ rangeStepCondition
    /\ result' = IF materialise THEN Append(result, loop.num) ELSE result
    /\ digest' = Push(digest, loop.num)
    /\ loop' = [loop EXCEPT !.num = Add(loop.num, loop.step), !.i = loop.i + 1]
    /\ UNCHANGED <<args, pc, correctionFactor, calc, materialise, ret, prev>>

\* What getTickValuesFixedDomain does with rangeStep's array, before it puts it
\* in the caller's order.
fixedDomainValues(values) ==
    IF args.allowDecimals = FALSE
    THEN [k \in 1..(Len(values) + 1) |-> Num(Round((values \o <<cormax>>)[k]))]
    ELSE values \o <<cormax>>

\* rangeStep's loop ends and its caller returns.
rangeStepReturn ==
    /\ pc = "rangeStep"
    /\ ~rangeStepCondition
    /\ CASE args.fn = "getNiceTickValues" -> Return(inCallerOrder(result))
         [] args.fn = "getTickValuesFixedDomain" ->
                Return(inCallerOrder(fixedDomainValues(result)))
         [] OTHER -> Return(result)
    /\ UNCHANGED <<args, correctionFactor, calc, loop, result, digest, materialise, prev>>

\* The same function is called again with the two bounds exchanged.
callReversed ==
    /\ pc \in {"done", "RangeError"}
    /\ prev = <<>>
    /\ args.fn \in {"getNiceTickValues", "getTickValuesFixedDomain"}
    /\ prev' = <<[args |-> args, pc |-> pc, ret |-> ret]>>
    /\ args' = [args EXCEPT !.min = args.max, !.max = args.min]
    /\ pc' = "call"
    /\ correctionFactor' = 0
    /\ calc' = NoCalc
    /\ loop' = NoLoop
    /\ result' = <<>>
    /\ digest' = EmptyDigest
    /\ ret' = <<>>
    /\ UNCHANGED materialise

Next ==
    \/ getNiceTickValues
    \/ calculateStep
    \/ getTickValuesFixedDomain
    \/ rangeStepIterate
    \/ rangeStepReturn
    \/ callReversed

Spec == Init /\ [][Next]_vars

----------------------------------------------------------------------------
(* The calls that reach rangeStep's iteration cap.  Their arrays are not   *)
(* materialised: digest describes them.                                    *)

\* The tick counts at the cap, and the domains they are tried on.
CapTickCounts == {RangeStepCap, RangeStepCap + 1}
CapDomains == {<<Num(-1), Zero>>, <<Zero, Num(1)>>}
\* The steps of the direct calls of rangeStep: negative, zero, and positive
\* ones, the last so small that the cap ends the loop.
CapSteps == {Num(-1), Zero, Num(1), <<1, 2>>, <<1, 2 * RangeStepCap>>}
CapStarts == {Zero, Num(1)}

InitCap ==
    /\ \/ /\ args \in [fn : {"getNiceTickValues"}, min : Bounds, max : Bounds,
                       tickCount : TickCounts, allowDecimals : BOOLEAN]
          /\ materialise = TRUE
       \/ /\ \E d \in CapDomains, n \in CapTickCounts, b \in BOOLEAN :
                 args = [fn |-> "getNiceTickValues", min |-> d[1], max |-> d[2],
                         tickCount |-> n, allowDecimals |-> b]
          /\ materialise = FALSE
       \/ /\ args \in [fn : {"rangeStep"}, start : CapStarts, end : CapStarts,
                       step : CapSteps]
          /\ materialise = FALSE
    /\ Fresh

NextCap ==
    \/ getNiceTickValues
    \/ calculateStep
    \/ rangeStepCall
    \/ rangeStepIterate
    \/ rangeStepReturn

SpecCap == InitCap /\ [][NextCap]_vars

----------------------------------------------------------------------------
(* The claims.                                                             *)

NiceCall == args.fn = "getNiceTickValues"
NiceDone == pc = "done" /\ NiceCall
FixedDone == pc = "done" /\ args.fn = "getTickValuesFixedDomain"
FiniteDomain == IsFinite(args.min) /\ IsFinite(args.max)
FiniteAscending == FiniteDomain /\ Lt(args.min, args.max)
\* max(tickCount, 2)
AtLeastTwo == IF args.tickCount < 2 THEN 2 ELSE args.tickCount
Ascending(s) == \A k \in 1..(Len(s) - 1) : Le(s[k], s[k + 1])
Descending(s) == \A k \in 1..(Len(s) - 1) : Ge(s[k], s[k + 1])
SteppedBy(s, d) == \A k \in 1..(Len(s) - 1) : s[k + 1] = Add(s[k], d)

\* C1: for finite min < max and tickCount >= 2 the recursion of calculateStep
\* reaches a call that returns: it never exhausts the call stack.
C1_CalculateStepReturns ==
    (NiceCall /\ FiniteAscending /\ args.tickCount >= 2) => pc # "RangeError"

\* C2: for finite min < max every value getTickValuesFixedDomain returns lies in
\* [min, max], and the last one is max.
C2_FixedDomainWithinDomain ==
    (FixedDone /\ FiniteAscending) =>
        /\ \A k \in DOMAIN ret : Le(args.min, ret[k]) /\ Le(ret[k], args.max)
        /\ ret # <<>>
        /\ ret[Len(ret)] = args.max

\* C3: for finite min < max with min <= 0 <= max, 0 is one of the ticks that
\* getNiceTickValues returns.
C3_ZeroIsATick ==
    (NiceDone /\ FiniteAscending /\ Le(args.min, Zero) /\ Le(Zero, args.max)) =>
        /\ digest.zero
        /\ materialise => \E k \in DOMAIN ret : ret[k] = Zero

\* C4: for finite a # b, getNiceTickValues([a, b]) and getNiceTickValues([b, a])
\* end alike, and the array one returns is the reverse of the other's.
C4_ReversedDomainReversedTicks ==
    (pc \in {"done", "RangeError"} /\ NiceCall /\ prev # <<>>
        /\ FiniteDomain /\ args.min # args.max) =>
        /\ pc = prev[1].pc
        /\ ret = Reverse(prev[1].ret)

C4_Witness ==
    /\ NiceDone /\ prev # <<>> /\ FiniteDomain /\ args.min # args.max
    /\ prev[1].args.min = args.max /\ prev[1].args.max = args.min
    /\ Len(ret) >= 3
    /\ ret # prev[1].ret
    /\ ret = Reverse(prev[1].ret)

\* C5: for tickCount >= 2 getNiceTickValues returns at least 2 ticks, ascending
\* when min <= max and descending when min > max.
C5_AtLeastTwoMonotonicTicks ==
    (pc \in {"done", "RangeError"} /\ NiceCall /\ args.tickCount >= 2) =>
        /\ pc = "done"
        /\ Len(ret) >= 2
        /\ IF Le(args.min, args.max) THEN Ascending(ret) ELSE Descending(ret)

\* C6: for tickCount n >= 2 and a domain whose smaller bound is -Infinity or
\* whose larger bound is +Infinity, getNiceTickValues returns n ticks: the
\* smaller bound and n - 1 times +Infinity when the larger bound is +Infinity,
\* else n - 1 times -Infinity and the larger bound; reversed when min > max.
C6_InfiniteBoundTicks ==
    LET smaller == IF Lt(args.max, args.min) THEN args.max ELSE args.min
        larger == IF Lt(args.max, args.min) THEN args.min ELSE args.max
        n == args.tickCount
        expected == [k \in 1..n |->
                        IF larger = PosInf
                        THEN (IF k = 1 THEN smaller ELSE PosInf)
                        ELSE (IF k = n THEN larger ELSE NegInf)]
    IN  (NiceDone /\ n >= 2 /\ (smaller = NegInf \/ larger = PosInf)) =>
            ret = IF Lt(args.max, args.min) THEN Reverse(expected) ELSE expected

C6_Witness ==
    /\ NiceDone /\ args.tickCount = 4
    /\ args.min = Num(1) /\ args.max = NegInf
    /\ ret = <<Num(1), NegInf, NegInf, NegInf>>

C8_RangeStepCapped ==
    /\ loop.i <= RangeStepCap
    /\ digest.len = loop.i
    /\ materialise => Len(result) = loop.i
    /\ (pc = "done" /\ args.fn = "rangeStep"
            /\ Lt(args.start, args.end) /\ Le(args.step, Zero)) =>
           digest.len = RangeStepCap

C8_Witness ==
    /\ pc = "done" /\ args.fn = "rangeStep"
    /\ args.start = Zero /\ args.end = Num(1) /\ args.step = Num(-1)
    /\ digest.len = RangeStepCap
    /\ digest.last = Num(1 - RangeStepCap)

\* What C9 says of calculateStep's result.
C9_StepSpansTicks ==
    /\ Gt(calc.step, Zero)
    /\ Sub(calc.tickMax, calc.tickMin) = Mul(Num(AtLeastTwo - 1), calc.step)

\* What C9 says of the ticks: max(tickCount, 2) of them, from tickMin to
\* tickMax, each one step after the one before.
C9_CountTicks ==
    /\ digest.len = AtLeastTwo
    /\ digest.first = calc.tickMin
    /\ digest.last = calc.tickMax
    /\ materialise => Len(ret) = AtLeastTwo /\ SteppedBy(ret, calc.step)

C10_StepCoversDomain ==
    Le(calc.tickMin, args.min) /\ Ge(calc.tickMax, args.max)

\* What C10 says of the ticks: the smallest is <= min, the largest is >= max.
C10_TicksCover ==
    /\ digest.len > 0
    /\ Le(digest.first, args.min)
    /\ Ge(digest.last, args.max)
    /\ materialise => (ret # <<>> /\ Le(ret[1], args.min) /\ Ge(ret[Len(ret)], args.max))

====
